---- MODULE Spec2Model ----
(***************************************************************************)
(* Model of WebDevelopment/Motel.js: one guest record built from literals, *)
(* two derived values (age, durationOfStay), one interpolated description, *)
(* one console write and one DOM text assignment.                          *)
(*                                                                         *)
(* A Date value is the record [day, ms]: the time value day * MsPerDay +   *)
(* ms, in milliseconds since 1970-01-01T00:00Z, kept in two parts because  *)
(* present-day time values (about 1.7e12) do not fit 32-bit integers.      *)
(* The host's time zone is a fixed offset from UTC, in minutes.            *)
(***************************************************************************)
EXTENDS Integers, Sequences, FiniteSets, TLC

VARIABLES pc, motelCustomer, now, tzOffset, element, customerDescription,
          consoleOut, uncaught, events, ageCalls, stayCalls, ticks

vars == <<pc, motelCustomer, now, tzOffset, element, customerDescription,
          consoleOut, uncaught, events, ageCalls, stayCalls, ticks>>

(***************************************************************************)
(* Bounds of the model.                                                    *)
(***************************************************************************)
\* the host clock advances at most MaxTicks times, by TickMs each time
MaxTicks == 8
\* at most this many calls of age() / durationOfStay() in a function run
MaxCalls == 2
\* check-in and check-out dates range over MaxStayDays + 1 consecutive days
MaxStayDays == 3

(***************************************************************************)
(* Calendar arithmetic of the host's Date object.                          *)
(***************************************************************************)
MsPerMinute == 1000 * 60
MsPerDay == 1000 * 60 * 60 * 24

\* floor division, also for a negative dividend
FloorDiv(a, b) == IF a >= 0 THEN a \div b ELSE -((-a + b - 1) \div b)

\* day number (days since 1970-01-01) of the proleptic Gregorian date y-m-d
MakeDay(y, m, d) ==
    LET yy  == IF m <= 2 THEN y - 1 ELSE y
        era == FloorDiv(yy, 400)
        yoe == yy - era * 400
        mp  == IF m > 2 THEN m - 3 ELSE m + 9
        doy == (153 * mp + 2) \div 5 + d - 1
        doe == yoe * 365 + yoe \div 4 - yoe \div 100 + doy
    IN  era * 146097 + doe - 719468

\* the calendar date [year, month (1..12), date] of a day number
CivilFromDay(n) ==
    LET z   == n + 719468
        era == FloorDiv(z, 146097)
        doe == z - era * 146097
        yoe == (doe - doe \div 1460 + doe \div 36524 - doe \div 146096) \div 365
        doy == doe - (365 * yoe + yoe \div 4 - yoe \div 100)
        mp  == (5 * doy + 2) \div 153
        d   == doy - (153 * mp + 2) \div 5 + 1
        m   == IF mp < 10 THEN mp + 3 ELSE mp - 9
        y   == yoe + era * 400 + (IF m <= 2 THEN 1 ELSE 0)
    IN  [year |-> y, month |-> m, date |-> d]

\* new Date("YYYY-MM-DD"): a date-only ISO string is midnight UTC of that day
DateParse(y, m, d) == [day |-> MakeDay(y, m, d), ms |-> 0]

\* the instant t plus k milliseconds
AddMs(t, k) ==
    [day |-> t.day + FloorDiv(t.ms + k, MsPerDay),
     ms  |-> (t.ms + k) - FloorDiv(t.ms + k, MsPerDay) * MsPerDay]

\* the day number of the local calendar day that instant t falls on
LocalDay(t, tz) == AddMs(t, tz * MsPerMinute).day

\* the day number of the UTC calendar day that instant t falls on
UTCDay(t) == t.day

getFullYear(t, tz) == CivilFromDay(LocalDay(t, tz)).year
\* getMonth() is zero-based
getMonth(t, tz) == CivilFromDay(LocalDay(t, tz)).month - 1
getDate(t, tz) == CivilFromDay(LocalDay(t, tz)).date

\* a.getTime() - b.getTime()
TimeDiff(a, b) == (a.day - b.day) * MsPerDay + (a.ms - b.ms)

MathAbs(x) == IF x < 0 THEN -x ELSE x

\* Math.ceil(x / d) for an integer x and a positive integer d
MathCeilDiv(x, d) == -FloorDiv(-x, d)

(***************************************************************************)
(* The guest record and its methods.                                       *)
(***************************************************************************)
\* mailingAddress.toString()
toString(addr) == addr.street \o ", " \o addr.city \o ", " \o addr.postalCode

\* the object literal, with the three dates left open
GuestRecord(birth, checkIn, checkOut) ==
    [name            |-> "Steven Norris",
     birthDate       |-> birth,
     gender          |-> "Male",
     roomPreferences |-> <<"Double Bed", "Pet-Friendly Status">>,
     paymentMethod   |-> "Pennies",
     mailingAddress  |-> [street     |-> "123 Duck St",
                          city       |-> "St. John's",
                          postalCode |-> "A5A 1A3"],
     phoneNumber     |-> "709-987-6543",
     checkInDate     |-> checkIn,
     checkOutDate    |-> checkOut]

\* the record of the script
LiteralCustomer ==
    GuestRecord(DateParse(1994, 7, 2), DateParse(2024, 4, 1), DateParse(2024, 4, 15))

\* the binding motelCustomer before its initialiser has run
Uninitialized == [uninitialized |-> TRUE]

\* age() without the same-month test on the day of the month
age_MonthOnly(this, today, tz) ==
    LET years == getFullYear(today, tz) - getFullYear(this.birthDate, tz)
        m     == getMonth(today, tz) - getMonth(this.birthDate, tz)
    IN  IF m < 0 THEN years - 1 ELSE years

\* age() reading today through the UTC getters
age_TodayInUTC(this, today, tz) ==
    LET years == getFullYear(today, 0) - getFullYear(this.birthDate, tz)
        m     == getMonth(today, 0) - getMonth(this.birthDate, tz)
    IN  IF m < 0 \/ (m = 0 /\ getDate(today, 0) < getDate(this.birthDate, tz))
        THEN years - 1
        ELSE years

\* motelCustomer.age(), with today = new Date() read from the host clock
age(this, today, tz) ==
    LET years == getFullYear(today, tz) - getFullYear(this.birthDate, tz)
        m     == getMonth(today, tz) - getMonth(this.birthDate, tz)
    IN  IF m < 0 \/ (m = 0 /\ getDate(today, tz) < getDate(this.birthDate, tz))
        THEN years - 1
        ELSE years

\* durationOfStay() with Math.floor for Math.ceil
durationOfStay_Floor(this) ==
    LET diffTime == MathAbs(TimeDiff(this.checkOutDate, this.checkInDate))
    IN  FloorDiv(diffTime, MsPerDay)

\* durationOfStay() taking the absolute value after rounding
durationOfStay_AbsAfterCeil(this) ==
    MathAbs(MathCeilDiv(TimeDiff(this.checkOutDate, this.checkInDate), MsPerDay))

\* durationOfStay() without Math.abs
durationOfStay_Signed(this) ==
    MathCeilDiv(TimeDiff(this.checkOutDate, this.checkInDate), MsPerDay)

\* motelCustomer.durationOfStay()
durationOfStay(this) ==
    LET diffTime == MathAbs(TimeDiff(this.checkOutDate, this.checkInDate))
    IN  MathCeilDiv(diffTime, MsPerDay)

\* join() with its default separator, the argument ignored
RECURSIVE join_DefaultSeparator(_, _)
join_DefaultSeparator(list, sep) ==
    IF Len(list) = 0 THEN ""
    ELSE IF Len(list) = 1 THEN list[1]
    ELSE list[1] \o "," \o join_DefaultSeparator(Tail(list), sep)

\* Array.prototype.join
RECURSIVE join(_, _)
join(list, sep) ==
    IF Len(list) = 0 THEN ""
    ELSE IF Len(list) = 1 THEN list[1]
    ELSE list[1] \o sep \o join(Tail(list), sep)

\* toLocaleDateString() in the en-US form month/day/year of the local date
toLocaleDateString(t, tz) ==
    LET c == CivilFromDay(LocalDay(t, tz))
    IN  ToString(c.month) \o "/" \o ToString(c.date) \o "/" \o ToString(c.year)

\* the template literal customerDescription
Description(this, today, tz) ==
    "Hello! I'm " \o this.name
    \o ", a " \o ToString(age(this, today, tz))
    \o " year old " \o this.gender
    \o " who prefers rooms with " \o join(this.roomPreferences, " and ")
    \o ". You can reach me at " \o this.phoneNumber
    \o ". My mailing address is " \o toString(this.mailingAddress)
    \o ". I'll be staying from " \o toLocaleDateString(this.checkInDate, tz)
    \o " to " \o toLocaleDateString(this.checkOutDate, tz)
    \o ", which is a duration of " \o ToString(durationOfStay(this))
    \o " days."

(***************************************************************************)
(* The host: its time zone, its clock and its document.                    *)
(***************************************************************************)
\* offsets from UTC in minutes: Newfoundland (standard time), UTC, Japan
TimeZones == {-210, 0, 540}

\* the clock advances in steps of six hours
TickMs == 1000 * 60 * 60 * 6

\* the instants a run may start at
StartInstants ==
    {DateParse(2024, 2, 28), DateParse(2024, 7, 1), DateParse(2024, 12, 31)}

\* the host clock advances
Tick ==
    /\ ticks < MaxTicks
    /\ ticks' = ticks + 1
    /\ now' = AddMs(now, TickMs)
    /\ UNCHANGED <<pc, motelCustomer, tzOffset, element, customerDescription,
                   consoleOut, uncaught, events, ageCalls, stayCalls>>

(***************************************************************************)
(* The script, statement by statement.                                     *)
(***************************************************************************)
\* lines 6-54: const motelCustomer = { ... }
Construct ==
    /\ pc = "construct"
    /\ motelCustomer' = LiteralCustomer
    /\ events' = Append(events, "construct")
    /\ pc' = "assemble"
    /\ UNCHANGED <<now, tzOffset, element, customerDescription, consoleOut,
                   uncaught, ageCalls, stayCalls, ticks>>

\* the description assembled with roomPreferences.reverse(), which reorders the
\* stored array in place
Assemble_ReversesInPlace ==
    /\ pc = "assemble"
    /\ motelCustomer' = [motelCustomer EXCEPT !.roomPreferences = <<@[2], @[1]>>]
    /\ customerDescription' = Description(motelCustomer', now, tzOffset)
    /\ ageCalls' = Append(ageCalls,
                          [today |-> now, result |-> age(motelCustomer, now, tzOffset)])
    /\ stayCalls' = Append(stayCalls, durationOfStay(motelCustomer))
    /\ events' = Append(events, "assemble")
    /\ pc' = "log"
    /\ UNCHANGED <<now, tzOffset, element, consoleOut, uncaught, ticks>>

\* lines 57-65: const customerDescription = `...`
Assemble ==
    /\ pc = "assemble"
    /\ customerDescription' = Description(motelCustomer, now, tzOffset)
    /\ ageCalls' = Append(ageCalls,
                          [today |-> now, result |-> age(motelCustomer, now, tzOffset)])
    /\ stayCalls' = Append(stayCalls, durationOfStay(motelCustomer))
    /\ events' = Append(events, "assemble")
    /\ pc' = "log"
    /\ UNCHANGED <<motelCustomer, now, tzOffset, element, consoleOut, uncaught,
                   ticks>>

\* line 68: console.log(customerDescription)
ConsoleLog ==
    /\ pc = "log"
    /\ consoleOut' = Append(consoleOut, customerDescription)
    /\ events' = Append(events, "console.log")
    /\ pc' = "display"
    /\ UNCHANGED <<motelCustomer, now, tzOffset, element, customerDescription,
                   uncaught, ageCalls, stayCalls, ticks>>

\* the display step guarded by a null check
SetTextContent_NullGuarded ==
    /\ pc = "display"
    /\ IF element.present
       THEN /\ element' = [element EXCEPT !.textContent = customerDescription,
                                          !.writes = @ + 1]
            /\ events' = events \o <<"getElementById", "assign">>
       ELSE /\ events' = events \o <<"getElementById">>
            /\ UNCHANGED element
    /\ pc' = "done"
    /\ UNCHANGED <<motelCustomer, now, tzOffset, customerDescription, consoleOut,
                   uncaught, ageCalls, stayCalls, ticks>>

\* the display step placed before the console write
SetTextContent_BeforeLog ==
    /\ pc \in {"log", "display"}
    /\ IF element.present
       THEN /\ element' = [element EXCEPT !.textContent = customerDescription,
                                          !.writes = @ + 1]
            /\ events' = events \o <<"getElementById", "assign">>
            /\ pc' = "done"
            /\ UNCHANGED uncaught
       ELSE /\ uncaught' = "TypeError"
            /\ events' = events \o <<"getElementById", "throw">>
            /\ pc' = "aborted"
            /\ UNCHANGED element
    /\ UNCHANGED <<motelCustomer, now, tzOffset, customerDescription, consoleOut,
                   ageCalls, stayCalls, ticks>>

\* line 71: document.getElementById("customerInfo").textContent = customerDescription
\* getElementById returns null when no element has the id, and the assignment
\* to a property of null throws a TypeError that nothing catches
SetTextContent ==
    /\ pc = "display"
    /\ IF element.present
       THEN /\ element' = [element EXCEPT !.textContent = customerDescription,
                                          !.writes = @ + 1]
            /\ events' = events \o <<"getElementById", "assign">>
            /\ pc' = "done"
            /\ UNCHANGED uncaught
       ELSE /\ uncaught' = "TypeError"
            /\ events' = events \o <<"getElementById", "throw">>
            /\ pc' = "aborted"
            /\ UNCHANGED element
    /\ UNCHANGED <<motelCustomer, now, tzOffset, customerDescription, consoleOut,
                   ageCalls, stayCalls, ticks>>

Init ==
    /\ pc = "construct"
    /\ motelCustomer = Uninitialized
    /\ now \in StartInstants
    /\ tzOffset \in TimeZones
    /\ element \in {[present |-> p, textContent |-> "", writes |-> 0] : p \in BOOLEAN}
    /\ customerDescription = ""
    /\ consoleOut = <<>>
    /\ uncaught = "none"
    /\ events = <<>>
    /\ ageCalls = <<>>
    /\ stayCalls = <<>>
    /\ ticks = 0

Next ==
    \/ Tick
    \/ Construct
    \/ Assemble
    \/ ConsoleLog
    \/ SetTextContent

Spec == Init /\ [][Next]_vars

(***************************************************************************)
(* age() as a function of the birth date, the clock and the time zone:     *)
(* the record is built with a birth date drawn from BirthDates, the clock  *)
(* advances, and age() is called at the instants the clock shows.          *)
(***************************************************************************)
\* date-only birth dates, and one Date that carries a time of day
BirthDates ==
    {DateParse(1994, 7, 2), DateParse(1995, 1, 1), DateParse(1996, 2, 29),
     DateParse(1994, 12, 31), AddMs(DateParse(2000, 3, 1), 3 * TickMs)}

\* a call motelCustomer.age()
CallAge ==
    /\ pc = "fn"
    /\ Len(ageCalls) < MaxCalls
    /\ ageCalls' = Append(ageCalls,
                          [today |-> now, result |-> age(motelCustomer, now, tzOffset)])
    /\ UNCHANGED <<pc, motelCustomer, now, tzOffset, element, customerDescription,
                   consoleOut, uncaught, events, stayCalls, ticks>>

InitAge ==
    /\ pc = "fn"
    /\ motelCustomer \in {GuestRecord(b, DateParse(2024, 4, 1), DateParse(2024, 4, 15)) :
                             b \in BirthDates}
    /\ now \in StartInstants
    /\ tzOffset \in TimeZones
    /\ element = [present |-> FALSE, textContent |-> "", writes |-> 0]
    /\ customerDescription = ""
    /\ consoleOut = <<>>
    /\ uncaught = "none"
    /\ events = <<>>
    /\ ageCalls = <<>>
    /\ stayCalls = <<>>
    /\ ticks = 0

NextAge ==
    \/ Tick
    \/ CallAge

SpecAge == InitAge /\ [][NextAge]_vars

(***************************************************************************)
(* durationOfStay() as a function of the two dates: the record is built    *)
(* with check-in and check-out dates drawn from StayDates.                 *)
(***************************************************************************)
\* times of day: midnight, one millisecond past, noon, one millisecond to midnight
TimesOfDay == {0, 1, MsPerDay \div 2, MsPerDay - 1}

StayDates ==
    {AddMs([day |-> MakeDay(2024, 4, 1) + d, ms |-> 0], t) :
        d \in 0..MaxStayDays, t \in TimesOfDay}
    \cup {DateParse(2024, 4, 15)}

\* a call motelCustomer.durationOfStay()
CallDurationOfStay ==
    /\ pc = "fn"
    /\ Len(stayCalls) < MaxCalls
    /\ stayCalls' = Append(stayCalls, durationOfStay(motelCustomer))
    /\ UNCHANGED <<pc, motelCustomer, now, tzOffset, element, customerDescription,
                   consoleOut, uncaught, events, ageCalls, ticks>>

InitStay ==
    /\ pc = "fn"
    /\ motelCustomer \in {GuestRecord(DateParse(1994, 7, 2), i, o) :
                             i \in StayDates, o \in StayDates}
    /\ now = DateParse(2024, 4, 1)
    /\ tzOffset \in TimeZones
    /\ element = [present |-> FALSE, textContent |-> "", writes |-> 0]
    /\ customerDescription = ""
    /\ consoleOut = <<>>
    /\ uncaught = "none"
    /\ events = <<>>
    /\ ageCalls = <<>>
    /\ stayCalls = <<>>
    /\ ticks = 0

NextStay == CallDurationOfStay

SpecStay == InitStay /\ [][NextStay]_vars

(***************************************************************************)
(* Properties.                                                             *)
(***************************************************************************)
\* the local calendar date of instant t
LocalDate(t) == CivilFromDay(LocalDay(t, tzOffset))

\* (month, date) of a is lexicographically earlier than (month, date) of b
MonthDayEarlier(a, b) ==
    a.month < b.month \/ (a.month = b.month /\ a.date < b.date)

\* C1: every age() call returns today.year - birthDate.year, less one exactly
\* when (today.month, today.day) is lexicographically earlier than
\* (birthDate.month, birthDate.day), the fields being the local calendar
\* fields the getters return.
AgeIsYearDifferenceLessBirthdayPending ==
    \A i \in DOMAIN ageCalls :
        LET t == LocalDate(ageCalls[i].today)
            b == LocalDate(motelCustomer.birthDate)
        IN  /\ MonthDayEarlier(t, b) => ageCalls[i].result = t.year - b.year - 1
            /\ ~MonthDayEarlier(t, b) => ageCalls[i].result = t.year - b.year

\* C1 witness: two calls for one birth date, one before the birthday of the
\* year (decremented) and one on or after it (not decremented)
AgeCalledBeforeAndAfterBirthday ==
    /\ Len(ageCalls) = 2
    /\ MonthDayEarlier(LocalDate(ageCalls[1].today), LocalDate(motelCustomer.birthDate))
    /\ ~MonthDayEarlier(LocalDate(ageCalls[2].today), LocalDate(motelCustomer.birthDate))
    /\ ageCalls[1].result + 1 = ageCalls[2].result

\* the calendar date a date-only birth date was written as (its UTC fields)
WrittenDate(t) == CivilFromDay(UTCDay(t))

\* C2: for the birth date as the record stores it, age() returns N when today
\* is the N-th anniversary (same month and day) and N - 1 when the N-th
\* anniversary is tomorrow.
AgeOnAnniversaryAndOnItsEve ==
    \A i \in DOMAIN ageCalls :
        LET b        == WrittenDate(motelCustomer.birthDate)
            today    == LocalDate(ageCalls[i].today)
            tomorrow == CivilFromDay(LocalDay(ageCalls[i].today, tzOffset) + 1)
        IN  /\ (today.month = b.month /\ today.date = b.date)
                  => ageCalls[i].result = today.year - b.year
            /\ (tomorrow.month = b.month /\ tomorrow.date = b.date)
                  => ageCalls[i].result = tomorrow.year - b.year - 1

\* C3: any two age() calls made on the same local calendar date return the
\* same value, whatever the time of day.
AgeInvariantUnderTimeOfDay ==
    \A i, j \in DOMAIN ageCalls :
        LocalDay(ageCalls[i].today, tzOffset) = LocalDay(ageCalls[j].today, tzOffset)
            => ageCalls[i].result = ageCalls[j].result

\* C3 witness: two calls at different instants of one local calendar date
AgeCalledTwiceOnOneDate ==
    /\ Len(ageCalls) = 2
    /\ ageCalls[1].today # ageCalls[2].today
    /\ LocalDay(ageCalls[1].today, tzOffset) = LocalDay(ageCalls[2].today, tzOffset)
    /\ UTCDay(ageCalls[1].today) # UTCDay(ageCalls[2].today)

\* |checkOutDate - checkInDate| in milliseconds
StaySpanMs == MathAbs(TimeDiff(motelCustomer.checkOutDate, motelCustomer.checkInDate))

\* C4: durationOfStay() returns the smallest whole number of days that covers
\* the absolute difference of the two dates, and 14 for 2024-04-01 to 2024-04-15.
StayIsCeilingOfDays ==
    \A i \in DOMAIN stayCalls :
        /\ stayCalls[i] * MsPerDay >= StaySpanMs
        /\ (stayCalls[i] - 1) * MsPerDay < StaySpanMs
        /\ (/\ motelCustomer.checkInDate = DateParse(2024, 4, 1)
            /\ motelCustomer.checkOutDate = DateParse(2024, 4, 15))
              => stayCalls[i] = 14

\* C4 witness: a span that is not a whole number of days has been rounded up
StayRoundedUp ==
    /\ Len(stayCalls) > 0
    /\ StaySpanMs % MsPerDay # 0
    /\ StaySpanMs > MsPerDay
    /\ stayCalls[1] = StaySpanMs \div MsPerDay + 1

\* the record with checkInDate and checkOutDate swapped
Swapped(this) ==
    [this EXCEPT !.checkInDate = this.checkOutDate, !.checkOutDate = this.checkInDate]

\* C5: durationOfStay() of the record equals durationOfStay() of the record
\* with checkInDate and checkOutDate swapped.
StayIsSymmetric ==
    \A i \in DOMAIN stayCalls : stayCalls[i] = durationOfStay(Swapped(motelCustomer))

\* C5 witness: a call on a record whose two dates differ
StayCalledOnDistinctDates ==
    /\ Len(stayCalls) > 0
    /\ motelCustomer.checkInDate # motelCustomer.checkOutDate
    /\ stayCalls[1] > 0

\* C6: durationOfStay() raises nothing and returns a non-negative count for any
\* order of the dates, and 0 for equal dates.
StayNeverRejectsARange ==
    \A i \in DOMAIN stayCalls :
        /\ uncaught = "none"
        /\ stayCalls[i] >= 0
        /\ motelCustomer.checkInDate = motelCustomer.checkOutDate => stayCalls[i] = 0

\* C6 witness: a call on a record whose check-out precedes its check-in
StayCalledOnInvertedRange ==
    /\ Len(stayCalls) > 0
    /\ TimeDiff(motelCustomer.checkOutDate, motelCustomer.checkInDate) < 0
    /\ stayCalls[1] > 0

\* t occurs in s as a substring
Contains(s, t) ==
    \E i \in 1..(Len(s) - Len(t) + 1) : SubSeq(s, i, i + Len(t) - 1) = t

\* s ends with t
EndsWith(s, t) ==
    /\ Len(s) >= Len(t)
    /\ SubSeq(s, Len(s) - Len(t) + 1, Len(s)) = t

\* the description has been assembled from a clock showing 2025-01-01
AssembledOnNewYear2025 ==
    /\ Len(ageCalls) = 1
    /\ LocalDate(ageCalls[1].today) = [year |-> 2025, month |-> 1, date |-> 1]

\* C7: with the literal record and today = 2025-01-01, the description contains
\* "a 30 year old Male who prefers rooms with Double Bed and Pet-Friendly Status"
\* and ends with "duration of 14 days.".
DescriptionOnNewYear2025 ==
    AssembledOnNewYear2025 =>
        /\ Contains(customerDescription,
              "a 30 year old Male who prefers rooms with Double Bed and Pet-Friendly Status")
        /\ EndsWith(customerDescription, "duration of 14 days.")

\* C7 witness: the run has assembled the description on 2025-01-01 and shown it
DescriptionShownOnNewYear2025 ==
    /\ AssembledOnNewYear2025
    /\ pc = "done"
    /\ element.textContent = customerDescription
    /\ Len(customerDescription) > 0

\* C8: with no customerInfo element, the display step ends in an uncaught
\* TypeError: no text is assigned, and the run stays aborted.
MissingElementIsFatal ==
    ~element.present =>
        /\ element.writes = 0 /\ element.textContent = ""
        /\ pc # "done"
        /\ (\E i \in DOMAIN events : events[i] = "getElementById") =>
              /\ pc = "aborted"
              /\ uncaught = "TypeError"
              /\ events[Len(events)] = "throw"

\* C8 witness: the run has aborted on the missing element
AbortedOnMissingElement ==
    /\ ~element.present
    /\ pc = "aborted"
    /\ uncaught = "TypeError"
    /\ Len(consoleOut) = 1

\* C9: once built, the record holds its constructed value in every state.
RecordKeepsConstructedValue ==
    pc # "construct" => motelCustomer = LiteralCustomer

\* C9 witness: both derived values computed, both outputs written
RecordReadByEveryStep ==
    /\ pc = "done"
    /\ Len(ageCalls) = 1 /\ Len(stayCalls) = 1
    /\ motelCustomer = LiteralCustomer

\* the two complete runs of the script
FullRuns ==
    {<<"construct", "assemble", "console.log", "getElementById", "assign">>,
     <<"construct", "assemble", "console.log", "getElementById", "throw">>}

\* C10: the steps occur in the order construct, assemble, console write,
\* lookup; the console has its one write before the lookup, also when the
\* element is missing; an existing element is assigned once, the same text.
StepsInScriptOrder ==
    /\ \E run \in FullRuns : Len(events) <= Len(run) /\ events = SubSeq(run, 1, Len(events))
    /\ Len(consoleOut) <= 1
    /\ Len(events) >= 3 => consoleOut = <<customerDescription>>
    /\ Len(events) < 3 => consoleOut = <<>>
    /\ pc \in {"done", "aborted"} => Len(events) = 5
    /\ pc = "done" <=> (Len(events) = 5 /\ element.present)
    /\ pc = "done" => element.writes = 1 /\ element.textContent = consoleOut[1]
    /\ element.writes <= 1

\* C10 witness: a run with the element ends with console and element agreeing
ConsoleThenElement ==
    /\ pc = "done"
    /\ events = <<"construct", "assemble", "console.log", "getElementById", "assign">>
    /\ consoleOut = <<element.textContent>>
    /\ element.writes = 1

====
